---- MODULE Spec2Model ----
(***************************************************************************)
(* Detection IPC client (DetectionClientImpl) of the DroneDemo vision      *)
(* client: session state machine, handshake, heartbeat, frame submission   *)
(* through the shared-memory mailbox and result polling, together with the *)
(* detector peer at the other end of the control channel.                  *)
(*                                                                         *)
(* The control channel is a byte stream: the peer appends whole messages,  *)
(* recv(n) takes at most n bytes from the front.  Blocking calls           *)
(* (handshake wait, heartbeat wait) and the three phases of sendFrame are  *)
(* separate steps, because the peer process runs between them.             *)
(***************************************************************************)
EXTENDS Integers, Sequences, FiniteSets, TLC

(* ------------------------------------------------------------------ *)
(* Bounds of the model                                                 *)
(* ------------------------------------------------------------------ *)
\* width of the uint32_t fields, scaled down: arithmetic wraps modulo 2^WordBits
WordBits == 3
\* payload capacity of the shared region in bytes, scaled down (< 2^WordBits)
MAX_FRAME_SIZE == 6
\* widths and heights submitted by the caller are drawn from 0..MaxDim
MaxDim == 3
\* bytes the peer may have pending on the control channel (lifecycle runs)
MaxInbox == 6
\* results the peer may push in front of one heartbeat reply (heartbeat runs)
MaxBurst == 7
\* frames the video pipeline delivers in a run
MaxFrames == 2
\* calls on the video pipeline that are remembered
TrailLen == 3

(* ------------------------------------------------------------------ *)
(* Program constants                                                   *)
(* ------------------------------------------------------------------ *)
BYTES_PER_PIXEL == 3
PROTOCOL_VERSION == 2
\* for (int attempts = 0; attempts < 5; ++attempts)
HEARTBEAT_ATTEMPTS == 5

\* MessageType tags (first byte of every control message)
HANDSHAKE_REQUEST == 1
HANDSHAKE_RESPONSE == 2
HEARTBEAT == 3
FRAME_READY == 4
DETECTION_RESULT == 5
SHUTDOWN == 6
\* a tag that is none of the above
UNKNOWN_TAG == 9

\* sizeof of the fixed-size records, in model bytes
SIZE_HEARTBEAT == 2
SIZE_HANDSHAKE_RESPONSE == 4
SIZE_DETECTION_RESULT == 6
\* char discard[256], scaled: larger than a heartbeat, smaller than a result
SIZE_DISCARD == 4
\* capacity of DetectionResultMessage::detections
MAX_DETECTIONS == 2

Word == 2 ^ WordBits

VARIABLES
    state_,         \* ConnectionState
    server_info_,   \* ServerInfo cached by the handshake
    last_error_,    \* std::string last_error_
    socket_fd_,     \* control socket descriptor, -1 when closed
    shm_fd_,        \* shared-memory descriptor, -1 when closed
    shm_ptr_,       \* "null" or "mapped"
    fds,            \* descriptors open in the client process
    maps,           \* number of live mappings of the region in the client process
    region,         \* the named shared-memory region: FrameHeader + payload
    inbox,          \* bytes sent by the peer, not yet read by the client
    wire,           \* the message the latest client step put on the channel, if any
    peer,           \* peer end of the current connection: "none", "open", "closed"
    pc,             \* position of the caller: "idle" or inside a blocking call
    attempts,       \* loop counter of sendHeartbeat
    call,           \* the call in progress or the last call: its name, the state it
                    \* found and its arguments
    last,           \* name and result of the last call that returned
    out,            \* output arguments of receiveDetections
    hb_burst,       \* results the peer pushed in front of its reply to the heartbeat
                    \* in progress, -1 when it has not replied
    bpp_wide,       \* the build: BYTES_PER_PIXEL is declared with a 64-bit type
                    \* (TRUE) or with a 32-bit one (FALSE)
    app,            \* main(): its position in the main loop and detector_connected
    pipeline,       \* the GStreamerPipeline object
    reader          \* the detector process reading the shared region

vars == <<state_, server_info_, last_error_, socket_fd_, shm_fd_, shm_ptr_, fds, maps,
          region, inbox, wire, peer, pc, attempts, call, last, out, hb_burst, bpp_wide,
          app, pipeline, reader>>

\* the detection client with its peer
client_vars == <<state_, server_info_, last_error_, socket_fd_, shm_fd_, shm_ptr_, fds,
                 maps, region, inbox, wire, peer, pc, attempts, call, last, out,
                 hb_burst, bpp_wide>>

\* a step of the client or of its peer taken on its own: the application around
\* the client, the video pipeline and the reader of the region are not involved
Free(A) == A /\ UNCHANGED <<app, pipeline, reader>>

(* ------------------------------------------------------------------ *)
(* The state as one record, so that a handler is a composition         *)
(* ------------------------------------------------------------------ *)
NoMsg == [type |-> 0]

\* the state a client step starts from: it has sent nothing yet
World ==
    [state_ |-> state_, server_info_ |-> server_info_, last_error_ |-> last_error_,
     socket_fd_ |-> socket_fd_, shm_fd_ |-> shm_fd_, shm_ptr_ |-> shm_ptr_,
     fds |-> fds, maps |-> maps, region |-> region, inbox |-> inbox, wire |-> NoMsg,
     peer |-> peer, out |-> out]

Commit(w) ==
    /\ state_' = w.state_
    /\ server_info_' = w.server_info_
    /\ last_error_' = w.last_error_
    /\ socket_fd_' = w.socket_fd_
    /\ shm_fd_' = w.shm_fd_
    /\ shm_ptr_' = w.shm_ptr_
    /\ fds' = w.fds
    /\ maps' = w.maps
    /\ region' = w.region
    /\ inbox' = w.inbox
    /\ wire' = w.wire
    /\ peer' = w.peer
    /\ out' = w.out
    /\ UNCHANGED bpp_wide

\* the caller is back from `op` with result `ret`
Return(op, ret) ==
    /\ pc' = "idle"
    /\ last' = [op |-> op, ret |-> ret]

Min(a, b) == IF a < b THEN a ELSE b

Take(s, n) == SubSeq(s, 1, Min(n, Len(s)))

Drop(s, n) == SubSeq(s, Min(n, Len(s)) + 1, Len(s))

\* lowest descriptor not in use
FreeFd(F) == CHOOSE n \in 3..(3 + Cardinality(F)) : n \notin F /\ \A m \in 3..(n - 1) : m \in F

(* ------------------------------------------------------------------ *)
(* Transport primitives                                                *)
(* ------------------------------------------------------------------ *)
\* UnixSocket::connect
UnixSocket_connect(w, ok) ==
    IF ok
    THEN [w EXCEPT !.socket_fd_ = FreeFd(w.fds), !.fds = @ \cup {FreeFd(w.fds)},
                   !.inbox = <<>>, !.peer = "open"]
    ELSE [w EXCEPT !.socket_fd_ = -1]

\* UnixSocket::close
UnixSocket_close(w) ==
    [w EXCEPT !.fds = @ \ {w.socket_fd_}, !.inbox = <<>>, !.peer = "none"]

\* SharedMemory::open
SharedMemory_open(w, ok) ==
    IF ok
    THEN [w EXCEPT !.shm_fd_ = FreeFd(w.fds), !.fds = @ \cup {FreeFd(w.fds)},
                   !.maps = @ + 1, !.shm_ptr_ = "mapped"]
    ELSE [w EXCEPT !.shm_ptr_ = "null"]

\* SharedMemory::close
SharedMemory_close(w) ==
    [w EXCEPT !.fds = @ \ {w.shm_fd_}, !.maps = @ - 1]

\* send(socket_fd_, &msg, sizeof(msg), 0) == sizeof(msg)
SendOk(w, ok) == ok /\ w.socket_fd_ >= 0 /\ w.peer = "open"

send(w, msg, ok) ==
    IF SendOk(w, ok)
    THEN [w EXCEPT !.wire = msg]
    ELSE w

\* a readiness check that always reports data
Readable_always(w) == TRUE

\* select(socket_fd_ + 1, &read_fds, ...) > 0
Readable(w) == w.socket_fd_ >= 0 /\ (w.inbox # <<>> \/ w.peer = "closed")

\* recv(socket_fd_, buf, n, 0): the bytes read, and the channel afterwards
recv_bytes(w, n) == Take(w.inbox, n)

recv(w, n) == [w EXCEPT !.inbox = Drop(@, n)]

(* ------------------------------------------------------------------ *)
(* Private helpers of DetectionClientImpl                              *)
(* ------------------------------------------------------------------ *)
\* a setError() that records nothing
setError_forgets(w, error) == w

setError(w, error) == [w EXCEPT !.last_error_ = error]

\* a guard that lets every call through
not_connected_never(w) == FALSE

\* if (state_ != ConnectionState::Connected): the first check of sendHeartbeat,
\* sendFrame and receiveDetections
not_connected(w) == w.state_ # "Connected"

cleanup_socket(w) ==
    IF w.socket_fd_ >= 0
    THEN [UnixSocket_close(w) EXCEPT !.socket_fd_ = -1]
    ELSE w

cleanup_shm(w) ==
    IF w.shm_ptr_ # "null"
    THEN [SharedMemory_close(w) EXCEPT !.shm_ptr_ = "null", !.shm_fd_ = -1]
    ELSE w

cleanup(w) == cleanup_shm(cleanup_socket(w))

setState(w, s) == [w EXCEPT !.state_ = s]

(* ------------------------------------------------------------------ *)
(* Messages                                                            *)
(* ------------------------------------------------------------------ *)
HandshakeRequestMsg ==
    [type |-> HANDSHAKE_REQUEST, protocol_version |-> PROTOCOL_VERSION]

HeartbeatMsg(type, ts) == [type |-> type, timestamp_ns |-> ts]

FrameReadyMsg(fid, w, h, ts) ==
    [type |-> FRAME_READY, frame_id |-> fid, width |-> w, height |-> h,
     timestamp_ns |-> ts]

\* what the peer puts on the channel, as bytes
HandshakeResponseBytes(version, accepted, model) ==
    <<HANDSHAKE_RESPONSE, version, accepted, model>>

HeartbeatBytes == <<HEARTBEAT, 0>>

DetectionResultBytes(fid, inference, num, d1, d2) ==
    <<DETECTION_RESULT, fid, inference, num, d1, d2>>

UnknownBytes == <<UNKNOWN_TAG, 0>>

ZeroServerInfo == [protocol_version |-> 0, accepted |-> 0, model |-> 0]

ZeroRegion ==
    [frame_id |-> 0, width |-> 0, height |-> 0, stride |-> 0, format |-> 0,
     timestamp_ns |-> 0, data |-> [i \in 1..MAX_FRAME_SIZE |-> 0]]

NoOut == [frame_id |-> 0, inference_time_ms |-> 0, detections |-> <<>>]

\* the FrameHeader at the start of the region
FrameHeader(r) ==
    [frame_id |-> r.frame_id, width |-> r.width, height |-> r.height,
     stride |-> r.stride, format |-> r.format, timestamp_ns |-> r.timestamp_ns]

ZeroHeader == FrameHeader(ZeroRegion)

\* PipelineState
PipelineStates == {"Uninitialized", "Ready", "Running", "Paused", "Error"}

\* the members of a GStreamerPipeline after construction; gst is the state of the
\* GStreamer element behind pipeline_, trail the most recent calls made on the
\* object (history for the properties, at most TrailLen entries)
NewPipeline ==
    [state_ |-> "Uninitialized", pipeline_ |-> "null", appsink_ |-> "null",
     last_error_ |-> "", latest_frame_ |-> -1, new_frame_available_ |-> FALSE,
     frame_counter_ |-> 0, actual_width_ |-> 0, actual_height_ |-> 0,
     gst |-> "NULL", trail |-> <<>>]

(* ------------------------------------------------------------------ *)
(* Initial state: a freshly constructed client, no connection          *)
(* ------------------------------------------------------------------ *)
Init ==
    /\ state_ = "Disconnected"
    /\ server_info_ = ZeroServerInfo
    /\ last_error_ = ""
    /\ socket_fd_ = -1
    /\ shm_fd_ = -1
    /\ shm_ptr_ = "null"
    /\ fds = {}
    /\ maps = 0
    /\ region = ZeroRegion
    /\ inbox = <<>>
    /\ wire = NoMsg
    /\ peer = "none"
    /\ pc = "idle"
    /\ attempts = 0
    /\ call = [op |-> "none", was |-> "Disconnected"]
    /\ last = [op |-> "none", ret |-> FALSE]
    /\ out = NoOut
    /\ hb_burst = -1
    /\ bpp_wide \in BOOLEAN
    /\ app = [loc |-> "start", detector_connected |-> FALSE]
    /\ pipeline = NewPipeline
    /\ reader = [pc |-> "idle", ready |-> NoMsg, header |-> ZeroHeader, data |-> <<>>]

(* ------------------------------------------------------------------ *)
(* connect()                                                           *)
(* ------------------------------------------------------------------ *)
\* connect(): if (state_ == ConnectionState::Connected) return true;
connect_never_noop(w) == FALSE

connect_is_noop(w) == w.state_ = "Connected"

\* a failure exit that forgets cleanup()
connect_fail_leaky(w, error) == setState(setError(w, error), "Error")

\* a failure exit that releases the mapping but not the socket
connect_fail_keeps_socket(w, error) == setState(cleanup_shm(setError(w, error)), "Error")

\* a failure exit that reports the session as merely closed
connect_fail_disconnected(w, error) ==
    setState(cleanup(setError(w, error)), "Disconnected")

\* a failure exit of connect() after the socket was opened: cleanup(); state_ = Error
connect_fail(w, error) == setState(cleanup(setError(w, error)), "Error")

\* a connect() that starts on top of what the previous attempt left
connect_begin_no_cleanup(w) == setState(w, "Connecting")

\* connect(): cleanup(); state_ = ConnectionState::Connecting;
connect_begin(w) == setState(cleanup(w), "Connecting")

\* connect() up to the wait for the handshake response
ConnectCall(sockOk, shmOk, sendOk) ==
    /\ pc = "idle"
    /\ call' = [op |-> "connect", was |-> state_]
    /\ UNCHANGED <<attempts, hb_burst>>
    /\ IF connect_is_noop(World)
       THEN /\ Commit(World)
            /\ Return("connect", TRUE)
       ELSE LET w1 == connect_begin(World)
                w2 == UnixSocket_connect(w1, sockOk)
                w3 == SharedMemory_open(w2, shmOk)
            IN  IF w2.socket_fd_ < 0
                THEN /\ Commit(setState(setError(w2, "Failed to connect to server"), "Error"))
                     /\ Return("connect", FALSE)
                ELSE IF w3.shm_ptr_ = "null"
                THEN /\ Commit(connect_fail(w3, "Failed to open shared memory"))
                     /\ Return("connect", FALSE)
                ELSE IF ~SendOk(w3, sendOk)
                THEN /\ Commit(connect_fail(w3, "Failed to send handshake request"))
                     /\ Return("connect", FALSE)
                ELSE /\ Commit(send(w3, HandshakeRequestMsg, sendOk))
                     /\ pc' = "handshake"
                     /\ UNCHANGED last

\* performHandshake(): select() timed out
HandshakeTimeout ==
    /\ pc = "handshake"
    /\ ~Readable(World)
    /\ Commit(connect_fail(World, "Handshake timeout"))
    /\ Return("connect", FALSE)
    /\ UNCHANGED <<attempts, call, hb_burst>>

\* a store that leaves the model information of the previous session in place
StoreServerInfo_version_only(w, response) ==
    [w EXCEPT !.server_info_.protocol_version = response[2],
              !.server_info_.accepted = response[3]]

\* the ServerInfo stored from a response
StoreServerInfo(w, response) ==
    [w EXCEPT !.server_info_ = [protocol_version |-> response[2],
                                accepted |-> response[3],
                                model |-> response[4]]]

\* a client that takes a rejection for an acceptance
handshake_rejected_never(response) == FALSE

\* if (!response.accepted)
handshake_rejected(response) == response[3] = 0

\* performHandshake() from recv() on, and the rest of connect()
HandshakeRecv ==
    /\ pc = "handshake"
    /\ Readable(World)
    /\ UNCHANGED <<attempts, call, hb_burst>>
    /\ LET response == recv_bytes(World, SIZE_HANDSHAKE_RESPONSE)
           w1 == recv(World, SIZE_HANDSHAKE_RESPONSE)
       IN  IF Len(response) # SIZE_HANDSHAKE_RESPONSE
           THEN /\ Commit(connect_fail(w1, "Invalid handshake response"))
                /\ Return("connect", FALSE)
           ELSE IF response[1] # HANDSHAKE_RESPONSE
           THEN /\ Commit(connect_fail(w1, "Unexpected message type in handshake"))
                /\ Return("connect", FALSE)
           ELSE IF handshake_rejected(response)
           THEN /\ Commit(connect_fail(w1, "Handshake rejected by server"))
                /\ Return("connect", FALSE)
           ELSE /\ Commit(setState(StoreServerInfo(w1, response), "Connected"))
                /\ Return("connect", TRUE)

(* ------------------------------------------------------------------ *)
(* disconnect()                                                        *)
(* ------------------------------------------------------------------ *)
\* if (state_ == ConnectionState::Connected && socket_fd_ >= 0)
shutdown_due(w) == w.state_ = "Connected" /\ w.socket_fd_ >= 0

\* the best-effort Shutdown message; the result of send() is not looked at
send_shutdown(w, sendOk) ==
    IF shutdown_due(w) THEN send(w, HeartbeatMsg(SHUTDOWN, 0), sendOk) ELSE w

\* a disconnect() that leaves the state as it found it
disconnect_keeps_state(w, sendOk) == cleanup(send_shutdown(w, sendOk))

\* a disconnect() that forgets cleanup()
disconnect_no_cleanup(w, sendOk) == setState(send_shutdown(w, sendOk), "Disconnected")

\* the body of disconnect()
disconnect(w, sendOk) == setState(cleanup(send_shutdown(w, sendOk)), "Disconnected")

\* a call of disconnect(); `again` tells that the previous call was disconnect() too
Disconnect(sendOk) ==
    /\ pc = "idle"
    /\ call' = [op |-> "disconnect", was |-> state_, again |-> (last.op = "disconnect")]
    /\ UNCHANGED <<attempts, hb_burst>>
    /\ Commit(disconnect(World, sendOk))
    /\ Return("disconnect", TRUE)

\* ~DetectionClientImpl(): disconnect(); the object is gone afterwards
Destroy(sendOk) ==
    /\ pc = "idle"
    /\ call' = [op |-> "~DetectionClientImpl", was |-> state_]
    /\ UNCHANGED <<attempts, hb_burst>>
    /\ Commit(disconnect(World, sendOk))
    /\ pc' = "destroyed"
    /\ last' = [op |-> "~DetectionClientImpl", ret |-> TRUE]

(* ------------------------------------------------------------------ *)
(* sendHeartbeat()                                                     *)
(* ------------------------------------------------------------------ *)
\* sendHeartbeat() up to the first select()
HeartbeatCall(ts, sendOk) ==
    /\ pc = "idle"
    /\ call' = [op |-> "sendHeartbeat", was |-> state_]
    /\ hb_burst' = -1
    /\ IF not_connected(World)
       THEN /\ Commit(setError(World, "Not connected"))
            /\ Return("sendHeartbeat", FALSE)
            /\ UNCHANGED attempts
       ELSE IF ~SendOk(World, sendOk)
       THEN /\ Commit(setError(World, "Failed to send heartbeat"))
            /\ Return("sendHeartbeat", FALSE)
            /\ UNCHANGED attempts
       ELSE /\ Commit(send(World, HeartbeatMsg(HEARTBEAT, ts), sendOk))
            /\ pc' = "heartbeat"
            /\ attempts' = 0
            /\ UNCHANGED last

\* a failure exit that also gives the session up
heartbeat_fail_downgrade(w, error) ==
    setState(cleanup(setError(w, error)), "Disconnected")

\* a failure exit that records nothing
heartbeat_fail_silent(w, error) == w

\* a failure exit of sendHeartbeat() after the request was sent: setError() only
heartbeat_fail(w, error) == setError(w, error)

\* one iteration of the wait loop whose select() timed out
HeartbeatTimeout ==
    /\ pc = "heartbeat"
    /\ ~Readable(World)
    /\ Commit(heartbeat_fail(World, "Heartbeat timeout"))
    /\ Return("sendHeartbeat", FALSE)
    /\ attempts' = 0
    /\ UNCHANGED <<call, hb_burst>>

\* a loop that gives up one attempt early
HeartbeatLoopEnds_early(n) == n >= HEARTBEAT_ATTEMPTS - 1

\* a loop that allows one attempt more
HeartbeatLoopEnds_late(n) == n >= HEARTBEAT_ATTEMPTS + 1

\* the loop continues while attempts < 5
HeartbeatLoopEnds(n) == n >= HEARTBEAT_ATTEMPTS

\* bytes consumed for a message that is not the heartbeat reply
HeartbeatSkip(msg_type) ==
    IF msg_type = DETECTION_RESULT THEN SIZE_DETECTION_RESULT ELSE SIZE_DISCARD

\* one iteration of the wait loop whose select() found the socket readable
HeartbeatAttempt ==
    /\ pc = "heartbeat"
    /\ Readable(World)
    /\ UNCHANGED <<call, hb_burst>>
    /\ LET peeked == recv_bytes(World, 1)
       IN  IF Len(peeked) = 0
           THEN /\ Commit(heartbeat_fail(World, "Connection closed during heartbeat"))
                /\ Return("sendHeartbeat", FALSE)
                /\ attempts' = 0
           ELSE IF peeked[1] = HEARTBEAT
           THEN /\ IF Len(recv_bytes(World, SIZE_HEARTBEAT)) = SIZE_HEARTBEAT
                   THEN /\ Commit(recv(World, SIZE_HEARTBEAT))
                        /\ Return("sendHeartbeat", TRUE)
                   ELSE /\ Commit(heartbeat_fail(recv(World, SIZE_HEARTBEAT),
                                                 "Incomplete heartbeat response"))
                        /\ Return("sendHeartbeat", FALSE)
                /\ attempts' = 0
           ELSE IF HeartbeatLoopEnds(attempts + 1)
           THEN /\ Commit(heartbeat_fail(recv(World, HeartbeatSkip(peeked[1])),
                                         "Too many non-heartbeat messages"))
                /\ Return("sendHeartbeat", FALSE)
                /\ attempts' = 0
           ELSE /\ Commit(recv(World, HeartbeatSkip(peeked[1])))
                /\ attempts' = attempts + 1
                /\ UNCHANGED <<pc, last>>

(* ------------------------------------------------------------------ *)
(* sendFrame()                                                         *)
(* ------------------------------------------------------------------ *)
\* uint32_t multiplication
Mul32(a, b) == (a * b) % Word

\* header->stride = width * BYTES_PER_PIXEL (a uint32_t field)
stride_of(width) == (width * BYTES_PER_PIXEL) % Word

\* size_t frame_size = width * height * BYTES_PER_PIXEL: width * height is a
\* uint32_t product; the product with BYTES_PER_PIXEL is 64-bit when the build
\* declares that constant with a 64-bit type, and 32-bit otherwise
frame_size(width, height) ==
    IF bpp_wide
    THEN Mul32(width, height) * BYTES_PER_PIXEL
    ELSE Mul32(Mul32(width, height), BYTES_PER_PIXEL)

\* the caller's pixel buffer: width*height RGB pixels, its content set by the frame
Pixels(fid, width, height) ==
    [i \in 1..(width * height * BYTES_PER_PIXEL) |-> 1 + ((fid + i) % 2)]

\* the FrameHeader fields written at the start of the region
write_header(r, fid, width, height, ts) ==
    [r EXCEPT !.frame_id = fid, !.width = width, !.height = height,
              !.stride = stride_of(width), !.format = 0, !.timestamp_ns = ts]

\* a copy that stops one byte short
memcpy_short(data, pixels, n) ==
    [i \in 1..MAX_FRAME_SIZE |-> IF i < n THEN pixels[i] ELSE data[i]]

\* std::memcpy(frame_data, pixels, n)
memcpy(data, pixels, n) ==
    [i \in 1..MAX_FRAME_SIZE |-> IF i <= n THEN pixels[i] ELSE data[i]]

\* a refusal that also marks the session failed
sendFrame_refuse_as_error(w, error) == setState(setError(w, error), "Error")

\* sendFrame() refused before anything was written: setError(); return false
sendFrame_refuse(w, error) == setError(w, error)

\* sendFrame() up to the size check
SendFrameCall(width, height, fid, ts) ==
    /\ pc = "idle"
    /\ call' = [op |-> "sendFrame", was |-> state_, width |-> width, height |-> height,
                frame_id |-> fid]
    /\ UNCHANGED <<attempts, hb_burst>>
    /\ IF not_connected(World)
       THEN /\ Commit(sendFrame_refuse(World, "Not connected"))
            /\ Return("sendFrame", FALSE)
       ELSE IF shm_ptr_ = "null"
       THEN /\ Commit(sendFrame_refuse(World, "Shared memory not available"))
            /\ Return("sendFrame", FALSE)
       ELSE LET w1 == [World EXCEPT !.region = write_header(@, fid, width, height, ts)]
            IN  IF frame_size(width, height) > MAX_FRAME_SIZE
                THEN /\ Commit(setError(w1, "Frame too large"))
                     /\ Return("sendFrame", FALSE)
                ELSE /\ Commit(w1)
                     /\ pc' = "sf_copy"
                     /\ UNCHANGED last

\* sendFrame(): the payload copy and the release fence
SendFrameCopy ==
    /\ pc = "sf_copy"
    /\ Commit([World EXCEPT !.region.data =
                   memcpy(@, Pixels(call.frame_id, call.width, call.height),
                          frame_size(call.width, call.height))])
    /\ pc' = "sf_notify"
    /\ UNCHANGED <<attempts, call, last, hb_burst>>

\* the FrameReady notification of the frame just written
frame_ready(w, c) ==
    FrameReadyMsg(c.frame_id, c.width, c.height, w.region.timestamp_ns)

\* sendFrame(): the FrameReady notification
SendFrameNotify(sendOk) ==
    /\ pc = "sf_notify"
    /\ UNCHANGED <<attempts, call, hb_burst>>
    /\ IF ~SendOk(World, sendOk)
       THEN /\ Commit(setError(World, "Failed to send frame notification"))
            /\ Return("sendFrame", FALSE)
       ELSE /\ Commit(send(World, frame_ready(World, call), sendOk))
            /\ Return("sendFrame", TRUE)

(* ------------------------------------------------------------------ *)
(* receiveDetections()                                                 *)
(* ------------------------------------------------------------------ *)
\* a field of the local `result`: the byte read, or what the stack held
Field(bytes, i, junk) == IF i <= Len(bytes) THEN bytes[i] ELSE junk

\* the detections copied out: entries past the array are whatever lies there
copy_detections(bytes, num, junk) ==
    [i \in 1..num |-> IF i <= MAX_DETECTIONS THEN Field(bytes, 4 + i, junk) ELSE junk]

\* an exit on peer close that reports a failed session
server_disconnected_error(w) ==
    setState(setError(w, "Server disconnected"), "Error")

\* recv() returned 0: setError("Server disconnected"); state_ = Disconnected
server_disconnected(w) ==
    setState(setError(w, "Server disconnected"), "Disconnected")

\* a type check that lets every message through
is_detection_result_any(result) == TRUE

\* result.type == MessageType::DETECTION_RESULT
is_detection_result(result) == result[1] = DETECTION_RESULT

ReceiveDetections(junk) ==
    /\ pc = "idle"
    /\ call' = [op |-> "receiveDetections", was |-> state_]
    /\ UNCHANGED <<attempts, hb_burst>>
    /\ IF not_connected(World)
       THEN /\ Commit(World)
            /\ Return("receiveDetections", FALSE)
       ELSE IF ~Readable(World)
       THEN /\ Commit(World)
            /\ Return("receiveDetections", FALSE)
       ELSE LET result == recv_bytes(World, SIZE_DETECTION_RESULT)
                w1 == recv(World, SIZE_DETECTION_RESULT)
            IN  IF Len(result) = 0
                THEN /\ Commit(server_disconnected(w1))
                     /\ Return("receiveDetections", FALSE)
                ELSE IF ~is_detection_result(result)
                THEN /\ Commit(w1)
                     /\ Return("receiveDetections", FALSE)
                ELSE /\ Commit([w1 EXCEPT !.out =
                            [frame_id |-> Field(result, 2, junk),
                             inference_time_ms |-> Field(result, 3, junk),
                             detections |-> copy_detections(result, Field(result, 4, junk), junk)]])
                     /\ Return("receiveDetections", TRUE)

(* ------------------------------------------------------------------ *)
(* The detector peer                                                   *)
(* ------------------------------------------------------------------ *)
\* the peer writes one whole message to the channel
PeerSend(bytes, limit) ==
    /\ peer = "open"
    /\ Len(inbox) + Len(bytes) <= limit
    /\ inbox' = inbox \o bytes
    /\ UNCHANGED <<state_, server_info_, last_error_, socket_fd_, shm_fd_, shm_ptr_, fds,
                   maps, region, wire, peer, pc, attempts, call, last, out, hb_burst, bpp_wide>>

\* the peer closes its end of the channel
PeerClose ==
    /\ peer = "open"
    /\ peer' = "closed"
    /\ UNCHANGED <<state_, server_info_, last_error_, socket_fd_, shm_fd_, shm_ptr_, fds,
                   maps, region, inbox, wire, pc, attempts, call, last, out, hb_burst, bpp_wide>>

\* the peer answers the heartbeat request: k pending results, then its reply
PeerReply(k) ==
    /\ pc = "heartbeat"
    /\ peer = "open"
    /\ attempts = 0
    /\ inbox = <<>>
    /\ hb_burst = -1
    /\ hb_burst' = k
    /\ inbox' = [i \in 1..(k * SIZE_DETECTION_RESULT) |->
                    DetectionResultBytes(1, 5, 1, 8, 9)[((i - 1) % SIZE_DETECTION_RESULT) + 1]]
                 \o HeartbeatBytes
    /\ UNCHANGED <<state_, server_info_, last_error_, socket_fd_, shm_fd_, shm_ptr_, fds,
                   maps, region, wire, peer, pc, attempts, call, last, out, bpp_wide>>

\* values of memory that was never written
Junk == {0}

\* the messages of the peer in the lifecycle runs
PeerMsgs ==
    {HandshakeResponseBytes(PROTOCOL_VERSION, a, 7) : a \in {0, 1}}
        \cup {HeartbeatBytes, DetectionResultBytes(1, 5, 1, 8, 9)}

Dims == 0..MaxDim

\* frame identifiers submitted by the caller
FrameIds == {41, 42}

\* readings of the steady clock
Clock == {1, 2}

\* protocol versions a detector may answer with: an older, the client's, a newer
Versions == {PROTOCOL_VERSION - 1, PROTOCOL_VERSION, PROTOCOL_VERSION + 1}

\* the messages of the peer in the handshake runs
HandshakeMsgs ==
    {HandshakeResponseBytes(v, a, 7) : v \in Versions, a \in {0, 1}}
        \cup {HeartbeatBytes, DetectionResultBytes(1, 5, 1, 8, 9)}

(* ------------------------------------------------------------------ *)
(* Lifecycle runs: every operation, an arbitrary peer, small frames    *)
(* ------------------------------------------------------------------ *)
Next ==
    \/ Free(\E sockOk, shmOk, sendOk \in BOOLEAN : ConnectCall(sockOk, shmOk, sendOk))
    \/ Free(HandshakeTimeout)
    \/ Free(HandshakeRecv)
    \/ Free(\E sendOk \in BOOLEAN : Disconnect(sendOk))
    \/ Free(\E sendOk \in BOOLEAN : Destroy(sendOk))
    \/ Free(\E sendOk \in BOOLEAN : HeartbeatCall(1, sendOk))
    \/ Free(HeartbeatTimeout)
    \/ Free(HeartbeatAttempt)
    \/ Free(SendFrameCall(1, 1, 41, 1))
    \/ Free(SendFrameCopy)
    \/ Free(\E sendOk \in BOOLEAN : SendFrameNotify(sendOk))
    \/ Free(\E junk \in Junk : ReceiveDetections(junk))
    \/ Free(\E bytes \in PeerMsgs : PeerSend(bytes, MaxInbox))
    \/ Free(PeerClose)

Spec == Init /\ [][Next]_vars

(* ------------------------------------------------------------------ *)
(* Frame runs: an accepting peer, frames of every size                 *)
(* ------------------------------------------------------------------ *)
NextFrame ==
    \/ Free(\E sockOk \in BOOLEAN : ConnectCall(sockOk, TRUE, TRUE))
    \/ Free(HandshakeRecv)
    \/ Free(\E width, height \in Dims, fid \in FrameIds, ts \in Clock :
              SendFrameCall(width, height, fid, ts))
    \/ Free(SendFrameCopy)
    \/ Free(\E sendOk \in BOOLEAN : SendFrameNotify(sendOk))
    \/ Free(PeerSend(HandshakeResponseBytes(PROTOCOL_VERSION, 1, 7), SIZE_HANDSHAKE_RESPONSE))

SpecFrame == Init /\ [][NextFrame]_vars

(* ------------------------------------------------------------------ *)
(* Heartbeat runs: the peer answers each heartbeat with a burst        *)
(* ------------------------------------------------------------------ *)
NextHB ==
    \/ Free(\E sockOk \in BOOLEAN : ConnectCall(sockOk, TRUE, TRUE))
    \/ Free(HandshakeRecv)
    \/ Free(Disconnect(TRUE))
    \/ Free(\E ts \in Clock, sendOk \in BOOLEAN : HeartbeatCall(ts, sendOk))
    \/ Free(HeartbeatTimeout)
    \/ Free(HeartbeatAttempt)
    \/ Free(\E junk \in Junk : ReceiveDetections(junk))
    \/ Free(PeerSend(HandshakeResponseBytes(PROTOCOL_VERSION, 1, 7), SIZE_HANDSHAKE_RESPONSE))
    \/ Free(\E k \in 0..MaxBurst : PeerReply(k))
    \/ Free(PeerClose)

SpecHB == Init /\ [][NextHB]_vars

(* ------------------------------------------------------------------ *)
(* Handshake runs: detectors of every protocol version                 *)
(* ------------------------------------------------------------------ *)
NextHS ==
    \/ Free(\E sockOk, shmOk, sendOk \in BOOLEAN : ConnectCall(sockOk, shmOk, sendOk))
    \/ Free(HandshakeTimeout)
    \/ Free(HandshakeRecv)
    \/ Free(\E sendOk \in BOOLEAN : Disconnect(sendOk))
    \/ Free(\E bytes \in HandshakeMsgs : PeerSend(bytes, MaxInbox))
    \/ Free(PeerClose)

SpecHS == Init /\ [][NextHS]_vars

(* ------------------------------------------------------------------ *)
(* Result runs: a detector that pushes batches of every length         *)
(* ------------------------------------------------------------------ *)
\* what lies behind the end of the local `result`
Garbage == {0, 7}

\* batches with 0 .. MAX_DETECTIONS + 1 announced detections, and heartbeat replies
ResultMsgs ==
    {DetectionResultBytes(f, 6, n, 8, 9) : f \in {1, 2}, n \in 0..(MAX_DETECTIONS + 1)}
        \cup {HeartbeatBytes}

NextRX ==
    \/ Free(\E sockOk \in BOOLEAN : ConnectCall(sockOk, TRUE, TRUE))
    \/ Free(HandshakeRecv)
    \/ Free(\E junk \in Garbage : ReceiveDetections(junk))
    \/ Free(PeerSend(HandshakeResponseBytes(PROTOCOL_VERSION, 1, 7), SIZE_HANDSHAKE_RESPONSE))
    \/ Free(\E bytes \in ResultMsgs : PeerSend(bytes, MaxInbox))
    \/ Free(PeerClose)

SpecRX == Init /\ [][NextRX]_vars

(* ------------------------------------------------------------------ *)
(* Progress runs: a peer that may send anything at any time, and a     *)
(* client thread that keeps running                                    *)
(* ------------------------------------------------------------------ *)
\* the messages of the peer in the progress runs
StreamMsgs ==
    {HandshakeResponseBytes(PROTOCOL_VERSION, 1, 7), HeartbeatBytes,
     DetectionResultBytes(1, 5, 1, 8, 9), UnknownBytes}

\* the next step of a call that waits: every select() returns within its timeout,
\* with data or without
ClientProgress ==
    \/ Free(HandshakeTimeout)
    \/ Free(HandshakeRecv)
    \/ Free(HeartbeatTimeout)
    \/ Free(HeartbeatAttempt)

NextLive ==
    \/ Free(\E sockOk \in BOOLEAN : ConnectCall(sockOk, TRUE, TRUE))
    \/ Free(Disconnect(TRUE))
    \/ Free(\E sendOk \in BOOLEAN : HeartbeatCall(1, sendOk))
    \/ Free(\E junk \in Junk : ReceiveDetections(junk))
    \/ ClientProgress
    \/ Free(\E bytes \in StreamMsgs : PeerSend(bytes, MaxInbox))
    \/ Free(PeerClose)

SpecLive == Init /\ [][NextLive]_vars /\ WF_vars(ClientProgress)

(* ------------------------------------------------------------------ *)
(* Session runs: detectors that differ in version and model            *)
(* ------------------------------------------------------------------ *)
\* the model descriptions of two detectors
Models == {7, 8}

\* the messages of the peer in the session runs
SessionMsgs ==
    {HandshakeResponseBytes(v, a, m) :
        v \in {PROTOCOL_VERSION, PROTOCOL_VERSION + 1}, a \in {0, 1}, m \in Models}
        \cup {HeartbeatBytes, DetectionResultBytes(1, 5, 1, 8, 9)}

NextSession ==
    \/ Free(\E sockOk \in BOOLEAN : ConnectCall(sockOk, TRUE, TRUE))
    \/ Free(HandshakeTimeout)
    \/ Free(HandshakeRecv)
    \/ Free(Disconnect(TRUE))
    \/ Free(HeartbeatCall(1, TRUE))
    \/ Free(HeartbeatTimeout)
    \/ Free(HeartbeatAttempt)
    \/ Free(SendFrameCall(1, 1, 41, 1))
    \/ Free(SendFrameCopy)
    \/ Free(\E sendOk \in BOOLEAN : SendFrameNotify(sendOk))
    \/ Free(\E junk \in Junk : ReceiveDetections(junk))
    \/ Free(\E bytes \in SessionMsgs : PeerSend(bytes, MaxInbox))
    \/ Free(PeerClose)

SpecSession == Init /\ [][NextSession]_vars

(* ------------------------------------------------------------------ *)
(* Late-reply runs: the peer may answer after the client stopped waiting *)
(* ------------------------------------------------------------------ *)
\* the peer answers a heartbeat request whose sendHeartbeat call has already
\* returned "Heartbeat timeout"
PeerLateReply ==
    /\ pc = "idle"
    /\ peer = "open"
    /\ last = [op |-> "sendHeartbeat", ret |-> FALSE]
    /\ last_error_ = "Heartbeat timeout"
    /\ inbox = <<>>
    /\ inbox' = HeartbeatBytes
    /\ UNCHANGED <<state_, server_info_, last_error_, socket_fd_, shm_fd_, shm_ptr_, fds,
                   maps, region, wire, peer, pc, attempts, call, last, out, hb_burst,
                   bpp_wide>>

NextLate ==
    \/ Free(\E sockOk \in BOOLEAN : ConnectCall(sockOk, TRUE, TRUE))
    \/ Free(HandshakeRecv)
    \/ Free(Disconnect(TRUE))
    \/ Free(\E ts \in Clock, sendOk \in BOOLEAN : HeartbeatCall(ts, sendOk))
    \/ Free(HeartbeatTimeout)
    \/ Free(HeartbeatAttempt)
    \/ Free(\E junk \in Junk : ReceiveDetections(junk))
    \/ Free(PeerSend(HandshakeResponseBytes(PROTOCOL_VERSION, 1, 7), SIZE_HANDSHAKE_RESPONSE))
    \/ Free(\E k \in 0..MaxBurst : PeerReply(k))
    \/ Free(PeerLateReply)
    \/ Free(PeerClose)

SpecLate == Init /\ [][NextLate]_vars

(* ------------------------------------------------------------------ *)
(* Result-stream runs: results and heartbeat replies share the channel *)
(* ------------------------------------------------------------------ *)
\* the result batches of two frames; the first detection of each starts with the
\* byte that is also the tag of a DetectionResult
OrderedResults == {DetectionResultBytes(f, 6, 1, DETECTION_RESULT, 9) : f \in {1, 2}}

NextOrder ==
    \/ Free(ConnectCall(TRUE, TRUE, TRUE))
    \/ Free(HandshakeRecv)
    \/ Free(HeartbeatCall(1, TRUE))
    \/ Free(HeartbeatTimeout)
    \/ Free(HeartbeatAttempt)
    \/ Free(\E junk \in Junk : ReceiveDetections(junk))
    \/ Free(PeerSend(HandshakeResponseBytes(PROTOCOL_VERSION, 1, 7), SIZE_HANDSHAKE_RESPONSE))
    \/ Free(\E bytes \in OrderedResults \cup {HeartbeatBytes} :
              PeerSend(bytes, SIZE_HEARTBEAT + SIZE_DETECTION_RESULT))

SpecOrder == Init /\ [][NextOrder]_vars

(* ------------------------------------------------------------------ *)
(* Shared-region runs: the detector reads while the client submits     *)
(* ------------------------------------------------------------------ *)
\* a step of the detector process on the region: it writes nothing
ReaderStep(r) ==
    /\ reader' = r
    /\ UNCHANGED client_vars
    /\ UNCHANGED <<app, pipeline>>

\* the detector receives the FrameReady message the client has just sent
ReaderNotified ==
    /\ reader.pc = "idle"
    /\ wire.type = FRAME_READY
    /\ ReaderStep([pc |-> "header", ready |-> wire, header |-> ZeroHeader, data |-> <<>>])

\* the detector reads the FrameHeader
ReaderHeader ==
    /\ reader.pc = "header"
    /\ ReaderStep([reader EXCEPT !.pc = "payload", !.header = FrameHeader(region)])

\* the detector reads the payload the header describes
ReaderPayload ==
    /\ reader.pc = "payload"
    /\ LET n == Min(reader.header.width * reader.header.height * BYTES_PER_PIXEL,
                    MAX_FRAME_SIZE)
       IN  ReaderStep([reader EXCEPT !.pc = "done",
                                     !.data = [i \in 1..n |-> region.data[i]]])

\* the detector is done with the frame and waits for the next notification
ReaderDone ==
    /\ reader.pc = "done"
    /\ ReaderStep([reader EXCEPT !.pc = "idle"])

NextShared ==
    \/ Free(ConnectCall(TRUE, TRUE, TRUE))
    \/ Free(HandshakeRecv)
    \/ Free(\E width \in 1..MaxDim, fid \in FrameIds : SendFrameCall(width, 1, fid, 1))
    \/ Free(SendFrameCopy)
    \/ Free(\E sendOk \in BOOLEAN : SendFrameNotify(sendOk))
    \/ Free(PeerSend(HandshakeResponseBytes(PROTOCOL_VERSION, 1, 7), SIZE_HANDSHAKE_RESPONSE))
    \/ ReaderNotified
    \/ ReaderHeader
    \/ ReaderPayload
    \/ ReaderDone

SpecShared == Init /\ [][NextShared]_vars

(* ------------------------------------------------------------------ *)
(* The video pipeline (GStreamerPipeline)                              *)
(* ------------------------------------------------------------------ *)
\* GStreamerPipeline::setError
pipeline_setError(p, error) == [p EXCEPT !.last_error_ = error, !.state_ = "Error"]

\* createPipeline(): gst_parse_launch reports an error, returns no element, or
\* returns the element
createPipeline(p, parse) ==
    CASE parse = "error" -> pipeline_setError(p, "Pipeline parse error")
      [] parse = "null" -> pipeline_setError(p, "Failed to create pipeline")
      [] OTHER -> [p EXCEPT !.pipeline_ = "element"]

\* setupAppSink(): gst_bin_get_by_name finds the element named sink, or not
setupAppSink(p, sinkOk) ==
    IF sinkOk THEN [p EXCEPT !.appsink_ = "element"]
    ELSE pipeline_setError(p, "Could not find appsink element (name=sink)")

\* initialize(config)
initialize(p, valid, parse, sinkOk, width, height) ==
    IF p.state_ # "Uninitialized" THEN pipeline_setError(p, "Pipeline already initialized")
    ELSE IF ~valid THEN pipeline_setError(p, "Invalid pipeline configuration")
    ELSE IF parse # "ok" THEN createPipeline(p, parse)
    ELSE IF ~sinkOk THEN setupAppSink(createPipeline(p, parse), sinkOk)
    ELSE [setupAppSink(createPipeline(p, parse), sinkOk) EXCEPT
              !.state_ = "Ready", !.actual_width_ = width, !.actual_height_ = height]

\* start(): gst_element_set_state(PLAYING) and the wait for it succeed or fail
start(p, setOk, getOk) ==
    IF p.state_ # "Ready" /\ p.state_ # "Paused"
    THEN pipeline_setError(p, "Cannot start: pipeline not ready")
    ELSE IF ~setOk THEN pipeline_setError(p, "Failed to start pipeline")
    ELSE IF ~getOk
    THEN [pipeline_setError(p, "Pipeline failed to reach PLAYING state") EXCEPT
              !.gst = "PLAYING"]
    ELSE [p EXCEPT !.gst = "PLAYING", !.state_ = "Running"]

\* stop() that forgets the pipeline was ever initialised
stop_resets(p) ==
    IF p.pipeline_ # "null" /\ p.state_ \in {"Running", "Paused"}
    THEN [p EXCEPT !.gst = "NULL", !.state_ = "Uninitialized"]
    ELSE p

\* stop()
stop(p) ==
    IF p.pipeline_ # "null" /\ p.state_ \in {"Running", "Paused"}
    THEN [p EXCEPT !.gst = "NULL", !.state_ = "Ready"]
    ELSE p

\* pullFrame() with a sample of the given dimensions in the appsink: the frame
\* takes the next frame number
pullFrame(p, width, height) ==
    [p EXCEPT !.frame_counter_ = @ + 1, !.actual_width_ = width,
              !.actual_height_ = height, !.new_frame_available_ = TRUE]

\* getLatestFrame(): sample is <<>> when the appsink has nothing to pull, else
\* the <<width, height>> of the sample
getLatestFrame(p, sample) ==
    IF p.state_ # "Running" \/ p.appsink_ = "null" \/ sample = <<>> THEN p
    ELSE [pullFrame(p, sample[1], sample[2]) EXCEPT
              !.latest_frame_ = p.frame_counter_, !.new_frame_available_ = FALSE]

\* what getLatestFrame() returns: -1 for nullptr, else the frame number
getLatestFrame_result(p, q) == IF p.state_ # "Running" THEN -1 ELSE q.latest_frame_

\* one call on the pipeline: q is the object after the call; the call is added to
\* the trail with the state it found, whether its GStreamer calls succeeded, and
\* what it returned
PipelineCall(op, q, ok, ret) ==
    /\ pipeline' = [q EXCEPT !.trail =
            LET t == Append(pipeline.trail,
                            [op |-> op, was |-> pipeline.state_, ok |-> ok, ret |-> ret])
            IN  IF Len(t) > TrailLen THEN Tail(t) ELSE t]
    /\ UNCHANGED client_vars
    /\ UNCHANGED <<app, reader>>

Initialize(valid, parse, sinkOk, width, height) ==
    LET q == initialize(pipeline, valid, parse, sinkOk, width, height)
    IN  PipelineCall("initialize", q, valid /\ parse = "ok" /\ sinkOk, q.state_ = "Ready")

Start(setOk, getOk) ==
    LET q == start(pipeline, setOk, getOk)
    IN  PipelineCall("start", q, setOk /\ getOk, q.state_ = "Running")

Stop == PipelineCall("stop", stop(pipeline), TRUE, TRUE)

GetLatestFrame(sample) ==
    /\ sample # <<>> => pipeline.frame_counter_ < MaxFrames
    /\ LET q == getLatestFrame(pipeline, sample)
       IN  PipelineCall("getLatestFrame", q, TRUE, getLatestFrame_result(pipeline, q) # -1)

\* frame sizes a configuration asks for and a sample carries
FrameSizes == {1, 2}

Samples == {<<>>} \cup (FrameSizes \X FrameSizes)

NextVideo ==
    \/ \E valid, sinkOk \in BOOLEAN, parse \in {"ok", "error", "null"} :
            Initialize(valid, parse, sinkOk, 1, 2)
    \/ \E setOk, getOk \in BOOLEAN : Start(setOk, getOk)
    \/ Stop
    \/ \E sample \in Samples : GetLatestFrame(sample)

SpecVideo == Init /\ [][NextVideo]_vars

(* ------------------------------------------------------------------ *)
(* The application main loop (main.cpp) around the detection client    *)
(* ------------------------------------------------------------------ *)
\* main() is at the given place, between two calls on the client
At(loc) == app.loc = loc /\ pc = "idle"

\* main() moves on to loc with detector_connected = connected
Go(loc, connected) ==
    /\ app' = [loc |-> loc, detector_connected |-> connected]
    /\ UNCHANGED <<pipeline, reader>>

\* startup: if (detector->connect())
StartupConnect(sockOk) ==
    /\ At("start")
    /\ ConnectCall(sockOk, TRUE, TRUE)
    /\ Go("connect_ret", app.detector_connected)

\* connect() has returned: detector_connected = true and a heartbeat on success
AfterConnect ==
    /\ At("connect_ret")
    /\ IF last.ret THEN Go("verify", TRUE) ELSE Go("send", app.detector_connected)
    /\ UNCHANGED client_vars

\* if (detector->sendHeartbeat()) after a successful connect(): the result is
\* only logged
VerifyHeartbeat(sendOk) ==
    /\ At("verify")
    /\ HeartbeatCall(1, sendOk)
    /\ Go("verify_ret", app.detector_connected)

AfterVerify ==
    /\ At("verify_ret")
    /\ Go("send", app.detector_connected)
    /\ UNCHANGED client_vars

\* step 4 with a valid frame, detector_connected and the frame interval elapsed
LoopSendFrame ==
    /\ At("send")
    /\ app.detector_connected
    /\ SendFrameCall(1, 1, 41, 1)
    /\ Go("send_ret", app.detector_connected)

\* step 4 skipped: no valid frame, not connected, or the interval not elapsed
LoopNoFrame ==
    /\ At("send")
    /\ Go("receive", app.detector_connected)
    /\ UNCHANGED client_vars

\* if (!sendFrame(...)) { if (!detector->isConnected()) detector_connected = false; }
AfterSendFrame ==
    /\ At("send_ret")
    /\ Go("receive", IF ~last.ret /\ state_ # "Connected" THEN FALSE
                     ELSE app.detector_connected)
    /\ UNCHANGED client_vars

\* step 5: if (detector_connected) receiveDetections(...); a false result is ignored
LoopReceive(junk) ==
    /\ At("receive")
    /\ app.detector_connected
    /\ ReceiveDetections(junk)
    /\ Go("tick", app.detector_connected)

LoopNoReceive ==
    /\ At("receive")
    /\ ~app.detector_connected
    /\ Go("tick", app.detector_connected)
    /\ UNCHANGED client_vars

\* end of an iteration in which neither the heartbeat nor the reconnect is due
LoopNoTick ==
    /\ At("tick")
    /\ Go("send", app.detector_connected)
    /\ UNCHANGED client_vars

\* the periodic heartbeat is due: if (!detector->sendHeartbeat())
LoopHeartbeat(sendOk) ==
    /\ At("tick")
    /\ app.detector_connected
    /\ HeartbeatCall(1, sendOk)
    /\ Go("heartbeat_ret", app.detector_connected)

AfterHeartbeat ==
    /\ At("heartbeat_ret")
    /\ Go(IF last.ret THEN "send" ELSE "lost", app.detector_connected)
    /\ UNCHANGED client_vars

\* detector->disconnect(); detector_connected = false;
LoopLost(sendOk) ==
    /\ At("lost")
    /\ Disconnect(sendOk)
    /\ Go("send", FALSE)

\* not connected and the reconnect interval elapsed: if (detector->connect())
LoopReconnect(sockOk) ==
    /\ At("tick")
    /\ ~app.detector_connected
    /\ ConnectCall(sockOk, TRUE, TRUE)
    /\ Go("connect_ret", app.detector_connected)

\* what the detector service sends while the application runs
ServiceMsgs ==
    {HandshakeResponseBytes(PROTOCOL_VERSION, 1, 7), HeartbeatBytes,
     DetectionResultBytes(1, 5, 1, 8, 9)}

NextMain ==
    \/ \E sockOk \in BOOLEAN : StartupConnect(sockOk)
    \/ AfterConnect
    \/ \E sendOk \in BOOLEAN : VerifyHeartbeat(sendOk)
    \/ AfterVerify
    \/ LoopSendFrame
    \/ LoopNoFrame
    \/ AfterSendFrame
    \/ \E junk \in Junk : LoopReceive(junk)
    \/ LoopNoReceive
    \/ LoopNoTick
    \/ \E sendOk \in BOOLEAN : LoopHeartbeat(sendOk)
    \/ AfterHeartbeat
    \/ \E sendOk \in BOOLEAN : LoopLost(sendOk)
    \/ \E sockOk \in BOOLEAN : LoopReconnect(sockOk)
    \/ Free(HandshakeTimeout)
    \/ Free(HandshakeRecv)
    \/ Free(HeartbeatTimeout)
    \/ Free(HeartbeatAttempt)
    \/ Free(SendFrameCopy)
    \/ Free(\E sendOk \in BOOLEAN : SendFrameNotify(sendOk))
    \/ Free(\E bytes \in ServiceMsgs : PeerSend(bytes, MaxInbox))
    \/ Free(PeerClose)

SpecMain == Init /\ [][NextMain]_vars

(* ================================================================== *)
(* Properties                                                          *)
(* ================================================================== *)
\* a step of the client (the peer only appends to the channel or closes its end)
ClientStep ==
    /\ ~(Len(inbox') > Len(inbox))
    /\ ~(peer = "open" /\ peer' = "closed")

\* the mathematical size of the frame of a sendFrame call exceeds the capacity
Oversize(c) == c.width * c.height * BYTES_PER_PIXEL > MAX_FRAME_SIZE

ConnectErrors ==
    {"Failed to connect to server", "Failed to open shared memory",
     "Failed to send handshake request", "Handshake timeout",
     "Invalid handshake response", "Unexpected message type in handshake",
     "Handshake rejected by server"}

\* C1: whenever connect() has returned false, the state is Error, the last error is
\* one of connect()'s messages, the control socket is closed (no descriptor is
\* left open) and no shared-memory region is mapped.
C1_ConnectFailureReleasesAll ==
    (pc = "idle" /\ last.op = "connect" /\ ~last.ret) =>
        /\ state_ = "Error"
        /\ last_error_ \in ConnectErrors
        /\ socket_fd_ = -1
        /\ shm_ptr_ = "null"
        /\ fds = {}
        /\ maps = 0
        /\ peer = "none"

\* connect() failed at the last step, the handshake, after socket and region were acquired
C1_Witness ==
    /\ pc = "idle"
    /\ last = [op |-> "connect", ret |-> FALSE]
    /\ last_error_ = "Handshake rejected by server"

\* C2: a connect() call made while the state is Connected returns true and changes
\* nothing: no message is sent, the socket and the mapping are the same, the
\* channel is not read, and state, ServerInfo and last error are unchanged.
C2_ConnectIdempotent ==
    [][(pc = "idle" /\ state_ = "Connected" /\ ClientStep /\ call'.op = "connect") =>
            /\ pc' = "idle"
            /\ last' = [op |-> "connect", ret |-> TRUE]
            /\ wire' = NoMsg
            /\ UNCHANGED <<state_, server_info_, last_error_, socket_fd_, shm_fd_,
                           shm_ptr_, fds, maps, region, inbox, peer>>]_vars

\* connect() was called on a Connected client and has returned
C2_Witness ==
    /\ pc = "idle"
    /\ call = [op |-> "connect", was |-> "Connected"]
    /\ last = [op |-> "connect", ret |-> TRUE]
    /\ state_ = "Connected"

\* C3: between calls, the client holds an open control socket or a mapped region
\* only if its state is Connected.
C3_ResourcesOnlyWhileConnected ==
    pc = "idle" => ((socket_fd_ >= 0 \/ shm_ptr_ # "null" \/ fds # {} \/ maps # 0)
                        => state_ = "Connected")

\* C4: no step of a sendFrame call whose width*height*bytes_per_pixel exceeds the
\* capacity changes the shared region, header or payload.
C4_OversizeLeavesRegion ==
    [][(ClientStep /\ call'.op = "sendFrame" /\ Oversize(call')) => region' = region]_vars

\* C5: a sendFrame call whose mathematical width*height*bytes_per_pixel exceeds the
\* capacity never gets to the payload copy and returns false.
C5_OversizeAlwaysRejected ==
    (call.op = "sendFrame" /\ Oversize(call)) => (pc = "idle" /\ ~last.ret)

\* the region holds the frame of the sendFrame call `c`, with stride `stride`
RegionHoldsFrame(c, stride) ==
    /\ region.frame_id = c.frame_id
    /\ region.width = c.width
    /\ region.height = c.height
    /\ region.stride = stride
    /\ region.format = 0
    /\ \A i \in 1..(c.width * c.height * BYTES_PER_PIXEL) :
           region.data[i] = Pixels(c.frame_id, c.width, c.height)[i]

\* a sendFrame call of a frame within capacity, made while Connected, has returned
SubmittedInCapacity ==
    /\ pc = "idle"
    /\ call.op = "sendFrame"
    /\ call.was = "Connected"
    /\ ~Oversize(call)

\* C6 as stated: after such a call the region holds frame_id, width and height of
\* the call, stride = width*3, format 0 and the pixel buffer byte for byte.
C6_RoundTripStrideExact ==
    SubmittedInCapacity => RegionHoldsFrame(call, call.width * BYTES_PER_PIXEL)

\* C6 amended: the same, with stride = width*3 reduced modulo 2^32 (the width of
\* the field), which is width*3 for every frame of height >= 1.
C6_RoundTrip ==
    SubmittedInCapacity =>
        /\ RegionHoldsFrame(call, (call.width * BYTES_PER_PIXEL) % Word)
        /\ call.height >= 1 => region.stride = call.width * BYTES_PER_PIXEL

\* a frame that fills the whole capacity was submitted and notified
C6_Witness ==
    /\ SubmittedInCapacity
    /\ last.ret
    /\ call.width * call.height * BYTES_PER_PIXEL = MAX_FRAME_SIZE

\* C7: a step that puts a FrameReady message on the channel leaves the region
\* alone, the region then holds the header and the full payload of that frame,
\* and the message's fields equal the header's.
C7_WriteThenNotify ==
    [][(ClientStep /\ wire'.type = FRAME_READY) =>
            /\ region' = region
            /\ wire'.frame_id = region.frame_id
            /\ wire'.width = region.width
            /\ wire'.height = region.height
            /\ wire'.timestamp_ns = region.timestamp_ns
            /\ ~Oversize(call)
            /\ RegionHoldsFrame(call, region.stride)]_vars

C9_HeartbeatKeepsSession ==
    [][(ClientStep /\ call'.op = "sendHeartbeat") =>
            UNCHANGED <<state_, socket_fd_, shm_fd_, shm_ptr_, fds, maps>>]_vars

\* a heartbeat of a Connected client timed out and the client is still Connected
C9_Witness ==
    /\ pc = "idle"
    /\ last = [op |-> "sendHeartbeat", ret |-> FALSE]
    /\ last_error_ = "Heartbeat timeout"
    /\ state_ = "Connected"
    /\ socket_fd_ >= 0
    /\ shm_ptr_ = "mapped"

\* sendHeartbeat returns false in this step and records `error`
HeartbeatFails(error) ==
    /\ pc' = "idle"
    /\ last' = [op |-> "sendHeartbeat", ret |-> FALSE]
    /\ last_error_' = error

\* C10: in the heartbeat wait, a read attempt that finds nothing readable, a peek
\* that reads zero bytes, and a fifth message that is not the reply each make
\* sendHeartbeat return false with its last-error message recorded.
C10_HeartbeatFailures ==
    [][(pc = "heartbeat" /\ ClientStep) =>
            /\ (inbox = <<>> /\ peer = "open") => HeartbeatFails("Heartbeat timeout")
            /\ (inbox = <<>> /\ peer = "closed") =>
                   HeartbeatFails("Connection closed during heartbeat")
            /\ (inbox # <<>> /\ inbox[1] # HEARTBEAT /\ attempts = HEARTBEAT_ATTEMPTS - 1) =>
                   HeartbeatFails("Too many non-heartbeat messages")]_vars

\* the retry bound was exhausted
C10_Witness ==
    /\ pc = "idle"
    /\ last = [op |-> "sendHeartbeat", ret |-> FALSE]
    /\ last_error_ = "Too many non-heartbeat messages"

\* C11: a receiveDetections call of a Connected client that finds the channel
\* closed by the peer with nothing left to read returns "no result" and leaves the
\* state Disconnected; and the only steps that enter the Error state are steps of
\* connect() that make it return false.
C11_PeerCloseDisconnects ==
    [][/\ (pc = "idle" /\ ClientStep /\ call'.op = "receiveDetections"
            /\ state_ = "Connected" /\ socket_fd_ >= 0 /\ inbox = <<>> /\ peer = "closed") =>
                /\ pc' = "idle"
                /\ last' = [op |-> "receiveDetections", ret |-> FALSE]
                /\ state_' = "Disconnected"
                /\ out' = out
       /\ (state_' = "Error" /\ state_ # "Error") =>
                /\ call'.op = "connect"
                /\ pc' = "idle"
                /\ last' = [op |-> "connect", ret |-> FALSE]]_vars

\* receiveDetections has seen the peer close
C11_Witness ==
    /\ pc = "idle"
    /\ call = [op |-> "receiveDetections", was |-> "Connected"]
    /\ last = [op |-> "receiveDetections", ret |-> FALSE]
    /\ state_ = "Disconnected"
    /\ last_error_ = "Server disconnected"

\* what a disconnect() has to leave behind
Released ==
    /\ socket_fd_ = -1
    /\ shm_ptr_ = "null"
    /\ fds = {}
    /\ maps = 0
    /\ peer = "none"

\* C12: every disconnect() call, whatever the state it finds, returns with the
\* state Disconnected; a disconnect() call that directly follows another one
\* sends nothing and changes no field of the client, the channel or the region.
C12_DisconnectRepeatable ==
    [][(pc = "idle" /\ ClientStep /\ call'.op = "disconnect") =>
            /\ pc' = "idle"
            /\ state_' = "Disconnected"
            /\ last.op = "disconnect" =>
                   /\ wire' = NoMsg
                   /\ UNCHANGED <<state_, server_info_, last_error_, socket_fd_, shm_fd_,
                                  shm_ptr_, fds, maps, region, inbox, peer, out>>]_vars

\* disconnect() was called right after disconnect()
C12_Witness ==
    /\ pc = "idle"
    /\ call = [op |-> "disconnect", was |-> "Disconnected", again |-> TRUE]
    /\ state_ = "Disconnected"

\* C13: a step of disconnect() or of the destructor sends nothing but at most one
\* Shutdown message, sends it only if it found the state Connected and the socket
\* open, and whether or not the send worked ends with the socket closed, the
\* region unmapped and the state Disconnected; a Shutdown message is sent by no
\* other step, and the session it is sent on is closed by the same step.
C13_DisconnectReleases ==
    [][/\ (pc = "idle" /\ ClientStep /\ call'.op \in {"disconnect", "~DetectionClientImpl"}) =>
                /\ wire' \in {NoMsg, HeartbeatMsg(SHUTDOWN, 0)}
                /\ wire' # NoMsg => (state_ = "Connected" /\ socket_fd_ >= 0)
                /\ state_' = "Disconnected"
                /\ Released'
       /\ (ClientStep /\ wire'.type = SHUTDOWN) =>
                /\ pc = "idle"
                /\ call'.op \in {"disconnect", "~DetectionClientImpl"}
                /\ peer = "open"
                /\ peer' = "none"]_vars

\* a Connected client was destroyed and said Shutdown on its way out
C13_Witness ==
    /\ pc = "destroyed"
    /\ call = [op |-> "~DetectionClientImpl", was |-> "Connected"]
    /\ wire = HeartbeatMsg(SHUTDOWN, 0)
    /\ Released

\* C14: the handshake step that reads a full HandshakeResponse with accepted == false
\* makes connect() return false with the state going from Connecting to Error,
\* the rejection recorded as last error and no region left mapped.
C14_RejectedHandshake ==
    [][(pc = "handshake" /\ ClientStep /\ Len(inbox) >= SIZE_HANDSHAKE_RESPONSE
            /\ inbox[1] = HANDSHAKE_RESPONSE /\ inbox[3] = 0) =>
                /\ pc' = "idle"
                /\ last' = [op |-> "connect", ret |-> FALSE]
                /\ state_ = "Connecting"
                /\ state_' = "Error"
                /\ last_error_' = "Handshake rejected by server"
                /\ last_error_' # ""
                /\ shm_ptr_' = "null"
                /\ maps' = 0]_vars

\* a connect() of a client that was not Connected was answered with a rejection
C14_Witness ==
    /\ pc = "idle"
    /\ call.op = "connect"
    /\ call.was # "Connected"
    /\ last = [op |-> "connect", ret |-> FALSE]
    /\ state_ = "Error"
    /\ last_error_ = "Handshake rejected by server"
    /\ maps = 0

\* C15: the client is never Connected with a cached SessionInfo whose protocol
\* version is not its own PROTOCOL_VERSION.
C15_VersionGate ==
    state_ = "Connected" => server_info_.protocol_version = PROTOCOL_VERSION

\* C16: the handshake step that finds no response in time, reads fewer bytes than
\* a HandshakeResponse, or reads a message of another type makes connect() return
\* false with the state Error, the socket closed, the region unmapped and the
\* cached ServerInfo as it was.
C16_BadHandshakeResponse ==
    [][(pc = "handshake" /\ ClientStep
            /\ (Len(inbox) < SIZE_HANDSHAKE_RESPONSE \/ inbox[1] # HANDSHAKE_RESPONSE)) =>
                /\ pc' = "idle"
                /\ last' = [op |-> "connect", ret |-> FALSE]
                /\ state_' = "Error"
                /\ Released'
                /\ server_info_' = server_info_]_vars

\* a reconnect got a short response; the ServerInfo of the earlier session is kept
C16_Witness ==
    /\ pc = "idle"
    /\ last = [op |-> "connect", ret |-> FALSE]
    /\ last_error_ = "Invalid handshake response"
    /\ server_info_ # ZeroServerInfo
    /\ Released

\* the last call failed: connect(), sendHeartbeat() or sendFrame() returned false,
\* or receiveDetections() saw the peer close
FailedCall ==
    /\ pc = "idle"
    /\ \/ last.op \in {"connect", "sendHeartbeat", "sendFrame"} /\ ~last.ret
       \/ last.op = "receiveDetections" /\ call.was = "Connected" /\ state_ = "Disconnected"

\* this step opened a fresh channel and a fresh mapping, nothing else is held, and
\* the handshake request is out
FreshHandshake ==
    /\ pc' = "handshake"
    /\ state_' = "Connecting"
    /\ peer' = "open"
    /\ inbox' = <<>>
    /\ wire' = HandshakeRequestMsg
    /\ socket_fd_' >= 0
    /\ shm_ptr_' = "mapped"
    /\ fds' = {socket_fd_', shm_fd_'}
    /\ maps' = 1

\* this step found the detector out of reach
DetectorUnreachable ==
    /\ pc' = "idle"
    /\ last' = [op |-> "connect", ret |-> FALSE]
    /\ last_error_' \in {"Failed to connect to server", "Failed to open shared memory",
                         "Failed to send handshake request"}

\* the handshake step that reads an accepting response ends Connected on the
\* channel the request went out on, with the ServerInfo of that response
AcceptedHandshake ==
    (pc = "handshake" /\ ClientStep /\ Len(inbox) >= SIZE_HANDSHAKE_RESPONSE
        /\ inbox[1] = HANDSHAKE_RESPONSE /\ inbox[3] # 0) =>
            /\ pc' = "idle"
            /\ last' = [op |-> "connect", ret |-> TRUE]
            /\ state_' = "Connected"
            /\ server_info_' = [protocol_version |-> inbox[2], accepted |-> inbox[3],
                                model |-> inbox[4]]
            /\ UNCHANGED <<socket_fd_, shm_fd_, shm_ptr_, fds, maps, peer>>

\* C17 as stated: a connect() call that follows a failed call either finds the
\* detector out of reach or opens a fresh channel and sends a handshake request,
\* and an accepting response then makes it end Connected.
C17_ConnectAfterAnyFailure ==
    [][/\ (FailedCall /\ ClientStep /\ call'.op = "connect") =>
                (FreshHandshake \/ DetectorUnreachable)
       /\ AcceptedHandshake]_vars

\* C17 amended: the same for a connect() call that follows a failed call which
\* left the state other than Connected, and for a connect() call that follows
\* disconnect().
C17_ConnectAfterRelease ==
    [][/\ (FailedCall /\ state_ # "Connected" /\ ClientStep /\ call'.op = "connect") =>
                (FreshHandshake \/ DetectorUnreachable)
       /\ (pc = "idle" /\ last.op = "disconnect" /\ ClientStep /\ call'.op = "connect") =>
                (FreshHandshake \/ DetectorUnreachable)
       /\ AcceptedHandshake]_vars

\* a heartbeat failed on a dead peer, the session was released, and the connect()
\* that followed is Connected to a live detector
C17_Witness ==
    /\ pc = "idle"
    /\ call = [op |-> "connect", was |-> "Disconnected"]
    /\ last = [op |-> "connect", ret |-> TRUE]
    /\ state_ = "Connected"
    /\ last_error_ = "Connection closed during heartbeat"
    /\ peer = "open"

\* C18: a sendFrame call made while the state is not Connected, or while no region
\* is mapped, returns false in one step that leaves the region as it was, sends
\* nothing, and changes neither the state nor the socket, the mapping or the channel.
C18_SendFrameRefused ==
    [][(pc = "idle" /\ ClientStep /\ call'.op = "sendFrame"
            /\ (state_ # "Connected" \/ shm_ptr_ = "null")) =>
                /\ pc' = "idle"
                /\ last' = [op |-> "sendFrame", ret |-> FALSE]
                /\ region' = region
                /\ wire' = NoMsg
                /\ UNCHANGED <<state_, socket_fd_, shm_fd_, shm_ptr_, fds, maps, inbox,
                               peer>>]_vars

\* a frame was refused by a client that is not Connected but still has the region
\* mapped, and the region is as it was created
C18_Witness ==
    /\ pc = "idle"
    /\ call.op = "sendFrame"
    /\ call.was = "Disconnected"
    /\ last = [op |-> "sendFrame", ret |-> FALSE]
    /\ last_error_ = "Not connected"
    /\ shm_ptr_ = "mapped"
    /\ region = ZeroRegion

\* a sendFrame call of a Connected client has returned false because the FrameReady
\* send failed
NotifyFailed ==
    /\ pc = "idle"
    /\ call.op = "sendFrame"
    /\ call.was = "Connected"
    /\ last = [op |-> "sendFrame", ret |-> FALSE]
    /\ last_error_ = "Failed to send frame notification"

\* C19: when sendFrame has returned false because the FrameReady send failed, the
\* state is still Connected with socket and mapping held and the region holds the
\* header and the full payload of that frame; and when a sendFrame call has
\* returned true, the region holds the header and the full payload of its own
\* frame, whatever an earlier call left there.
C19_SendFailureKeepsFrame ==
    /\ NotifyFailed =>
            /\ state_ = "Connected"
            /\ socket_fd_ >= 0
            /\ shm_ptr_ = "mapped"
            /\ ~Oversize(call)
            /\ RegionHoldsFrame(call, region.stride)
    /\ (pc = "idle" /\ call.op = "sendFrame" /\ last = [op |-> "sendFrame", ret |-> TRUE]) =>
            /\ ~Oversize(call)
            /\ RegionHoldsFrame(call, region.stride)

\* C20: a sendFrame call of a Connected client whose width*height*bytes_per_pixel
\* exceeds the capacity returns false in its first step with "Frame too large"
\* recorded, sends nothing, and leaves the state Connected and the socket, the
\* mapping and the channel as they were.
C20_OversizeRejectsOnlyTheCall ==
    [][(pc = "idle" /\ state_ = "Connected" /\ ClientStep /\ call'.op = "sendFrame"
            /\ Oversize(call')) =>
                /\ pc' = "idle"
                /\ last' = [op |-> "sendFrame", ret |-> FALSE]
                /\ last_error_' = "Frame too large"
                /\ wire' = NoMsg
                /\ UNCHANGED <<state_, socket_fd_, shm_fd_, shm_ptr_, fds, maps, inbox,
                               peer>>]_vars

\* C21: a receiveDetections call of a Connected client whose channel is open with
\* nothing pending returns "no result" in one step that reads nothing and leaves
\* the state, the last error, the output arguments and everything else unchanged.
C21_NothingPending ==
    [][(pc = "idle" /\ ClientStep /\ call'.op = "receiveDetections"
            /\ state_ = "Connected" /\ inbox = <<>> /\ peer = "open") =>
                /\ pc' = "idle"
                /\ last' = [op |-> "receiveDetections", ret |-> FALSE]
                /\ wire' = NoMsg
                /\ UNCHANGED <<state_, server_info_, last_error_, socket_fd_, shm_fd_,
                               shm_ptr_, fds, maps, region, inbox, peer, out>>]_vars

\* a poll found nothing; the outputs still hold the batch of an earlier poll
C21_Witness ==
    /\ pc = "idle"
    /\ call = [op |-> "receiveDetections", was |-> "Connected"]
    /\ last = [op |-> "receiveDetections", ret |-> FALSE]
    /\ state_ = "Connected"
    /\ inbox = <<>>
    /\ peer = "open"
    /\ out # NoOut

\* C22: a receiveDetections call of a Connected client that reads a message whose
\* type tag is not DETECTION_RESULT returns "no result" and leaves the state, the
\* last error and the output arguments unchanged.
C22_ForeignTypeIgnored ==
    [][(pc = "idle" /\ ClientStep /\ call'.op = "receiveDetections"
            /\ state_ = "Connected" /\ inbox # <<>> /\ inbox[1] # DETECTION_RESULT) =>
                /\ pc' = "idle"
                /\ last' = [op |-> "receiveDetections", ret |-> FALSE]
                /\ UNCHANGED <<state_, last_error_, out, socket_fd_, shm_ptr_>>]_vars

\* a poll has read a message of another type; the outputs still hold an earlier batch
C22_Witness ==
    /\ pc = "idle"
    /\ call = [op |-> "receiveDetections", was |-> "Connected"]
    /\ last = [op |-> "receiveDetections", ret |-> FALSE]
    /\ state_ = "Connected"
    /\ wire = NoMsg
    /\ out # NoOut
    /\ last_error_ = "Heartbeat timeout"
    /\ inbox = <<>>
    /\ peer = "open"
    /\ hb_burst = -1

\* C23: a receiveDetections call never takes a Heartbeat reply off the channel: a
\* step of it either leaves the channel as it was or removes exactly one whole
\* DetectionResult record from its front.
C23_HeartbeatReplyKept ==
    [][(pc = "idle" /\ ClientStep /\ call'.op = "receiveDetections") =>
            \/ inbox' = inbox
            \/ /\ inbox[1] = DETECTION_RESULT
               /\ Len(inbox) >= SIZE_DETECTION_RESULT
               /\ inbox' = Drop(inbox, SIZE_DETECTION_RESULT)]_vars

\* C24: a receiveDetections call of a Connected client that finds a whole
\* DetectionResult record at the front of the channel consumes it and returns true
\* with frame_id and inference_time_ms of the record and a vector of exactly
\* num_detections entries, entry i being entry i of the record's detection array.
C24_BatchCopiedOut ==
    [][(pc = "idle" /\ ClientStep /\ call'.op = "receiveDetections" /\ state_ = "Connected"
            /\ Len(inbox) >= SIZE_DETECTION_RESULT /\ inbox[1] = DETECTION_RESULT) =>
                /\ pc' = "idle"
                /\ last' = [op |-> "receiveDetections", ret |-> TRUE]
                /\ inbox' = Drop(inbox, SIZE_DETECTION_RESULT)
                /\ out'.frame_id = inbox[2]
                /\ out'.inference_time_ms = inbox[3]
                /\ Len(out'.detections) = inbox[4]
                /\ \A i \in 1..inbox[4] :
                       i <= MAX_DETECTIONS /\ out'.detections[i] = inbox[4 + i]]_vars

HeartbeatErrors ==
    {"Not connected", "Failed to send heartbeat", "Heartbeat timeout",
     "Connection closed during heartbeat", "Incomplete heartbeat response",
     "Too many non-heartbeat messages"}

FrameErrors ==
    {"Not connected", "Shared memory not available", "Frame too large",
     "Failed to send frame notification"}

\* this step is the return of `op` with result false
ReturnsFalse(op) ==
    /\ ClientStep
    /\ call'.op = op
    /\ pc' = "idle"
    /\ last' = [op |-> op, ret |-> FALSE]

\* C25: the step in which connect, sendHeartbeat or sendFrame returns false leaves
\* one of that operation's (non-empty) messages as last error, and the last error
\* is non-empty whenever the state is Error.
C25_FailuresRecorded ==
    [][/\ ReturnsFalse("connect") => last_error_' \in ConnectErrors
       /\ ReturnsFalse("sendHeartbeat") => last_error_' \in HeartbeatErrors
       /\ ReturnsFalse("sendFrame") => last_error_' \in FrameErrors
       /\ state_' = "Error" => last_error_' # ""]_vars

\* the first connect() of a client timed out in the handshake
C25_Witness ==
    /\ pc = "idle"
    /\ last = [op |-> "connect", ret |-> FALSE]
    /\ state_ = "Error"
    /\ last_error_ = "Handshake timeout"
    /\ server_info_ = ZeroServerInfo

\* C26: while the state is not Connected, a call of sendHeartbeat, sendFrame or
\* receiveDetections returns false in one step through its "not connected" exit,
\* sending nothing and taking nothing off the channel, and disconnect() and the
\* destructor send nothing; the only call that sends from such a state is connect().
C26_NoChannelUseUnlessConnected ==
    [][(pc = "idle" /\ state_ # "Connected" /\ ClientStep) =>
            /\ call'.op \in {"sendHeartbeat", "sendFrame", "receiveDetections"} =>
                   /\ pc' = "idle"
                   /\ last' = [op |-> call'.op, ret |-> FALSE]
                   /\ wire' = NoMsg
                   /\ UNCHANGED <<inbox, peer, state_, socket_fd_, region>>
                   /\ IF call'.op = "receiveDetections"
                      THEN last_error_' = last_error_
                      ELSE last_error_' = "Not connected"
            /\ call'.op \in {"disconnect", "~DetectionClientImpl"} => wire' = NoMsg
            /\ wire' # NoMsg => call'.op = "connect"]_vars

\* a heartbeat was refused by a client that is Disconnected with its socket still open
C26_Witness ==
    /\ pc = "idle"
    /\ call = [op |-> "sendHeartbeat", was |-> "Disconnected"]
    /\ last = [op |-> "sendHeartbeat", ret |-> FALSE]
    /\ last_error_ = "Not connected"
    /\ socket_fd_ >= 0

\* C28: once disconnect() has returned, or connect() has returned false, the cached
\* ServerInfo holds nothing of an earlier session: it is as freshly constructed.
C28_SessionInfoDiscarded ==
    (pc = "idle" /\ (last.op = "disconnect" \/ last = [op |-> "connect", ret |-> FALSE])) =>
        server_info_ = ZeroServerInfo

\* C29: every call that is under way returns, whatever the peer sends and however
\* fast it refills the channel; the heartbeat wait never starts a sixth attempt.
C29_OperationsTerminate ==
    /\ [](attempts < HEARTBEAT_ATTEMPTS)
    /\ (pc # "idle") ~> (pc = "idle")

\* a heartbeat gave up on its fifth attempt while the peer kept the channel filled
\* with messages of an unknown type
C29_Witness ==
    /\ pc = "idle"
    /\ last = [op |-> "sendHeartbeat", ret |-> FALSE]
    /\ last_error_ = "Too many non-heartbeat messages"
    /\ Len(inbox) >= 2
    /\ inbox[1] = UNKNOWN_TAG

(* ------------------------------------------------------------------ *)
(* Video pipeline                                                      *)
(* ------------------------------------------------------------------ *)
\* the pipeline object without the history of calls
PipelineObject(p) == [p EXCEPT !.trail = <<>>]

\* the last n calls made on the pipeline
LastCalls(n) ==
    IF Len(pipeline.trail) < n THEN <<>>
    ELSE SubSeq(pipeline.trail, Len(pipeline.trail) - n + 1, Len(pipeline.trail))

\* the last three calls were start(), stop(), start(), the first of them on a
\* pipeline that initialize() had made Ready, and the state changes of both
\* start() calls succeeded
StartStopStart ==
    LET t == LastCalls(3)
    IN  /\ t # <<>>
        /\ t[1].op = "start" /\ t[1].was = "Ready" /\ t[1].ok
        /\ t[2].op = "stop"
        /\ t[3].op = "start" /\ t[3].ok

\* a stop() directly after a stop()
SecondStop ==
    /\ pipeline.trail # <<>>
    /\ pipeline.trail[Len(pipeline.trail)].op = "stop"
    /\ pipeline'.trail # pipeline.trail
    /\ pipeline'.trail[Len(pipeline'.trail)].op = "stop"

\* C30: a second consecutive stop() changes nothing in the video pipeline, and
\* start(), stop(), start() on an initialised pipeline whose state changes succeed
\* ends with the pipeline Running (both start() calls returning true)
C30_StopIdempotentRestart ==
    [][/\ SecondStop => PipelineObject(pipeline') = PipelineObject(pipeline)
       /\ StartStopStart' =>
            /\ pipeline'.state_ = "Running"
            /\ pipeline'.gst = "PLAYING"
            /\ LastCalls(3)'[1].ret /\ LastCalls(3)'[3].ret]_vars

\* start(), stop(), start() has been run on an initialised pipeline that has
\* delivered a frame
C30_Witness ==
    /\ StartStopStart
    /\ pipeline.actual_height_ = 2
    /\ pipeline.frame_counter_ > 0

(* ------------------------------------------------------------------ *)
(* Main loop                                                           *)
(* ------------------------------------------------------------------ *)
\* C27 (the part that fails): the step in which the main loop sets
\* detector_connected to false leaves the client with its resources released
C27_LossReleasesClient ==
    [][(app.detector_connected /\ ~app'.detector_connected) => Released']_vars

\* the most recent call made on the pipeline
LastCall == pipeline.trail[Len(pipeline.trail)]

\* C39: initialize() on a pipeline that is Ready and start() on a pipeline that is
\* Running return false and leave the pipeline Ready respectively Running
C39_RejectedCallKeepsState ==
    pipeline.trail # <<>> =>
        /\ (LastCall.op = "initialize" /\ LastCall.was = "Ready") =>
                ~LastCall.ret /\ pipeline.state_ = "Ready"
        /\ (LastCall.op = "start" /\ LastCall.was = "Running") =>
                ~LastCall.ret /\ pipeline.state_ = "Running"

(* ------------------------------------------------------------------ *)
(* connect(): result and state                                         *)
(* ------------------------------------------------------------------ *)
\* a connect() call returns in this step
ConnectReturns ==
    /\ ClientStep
    /\ call'.op = "connect"
    /\ pc' = "idle"
    /\ pc = "handshake" \/ call' # call \/ last' # last \/ state_' # state_

\* C37: connect() returns true exactly when it leaves the state Connected, it
\* leaves the state Connected or Error, and between two operations of the client
\* the state is never Connecting
C37_ConnectResultMatchesState ==
    /\ [](pc = "idle" => state_ # "Connecting")
    /\ [][ConnectReturns =>
            /\ last'.op = "connect"
            /\ last'.ret <=> state_' = "Connected"
            /\ state_' \in {"Connected", "Error"}]_vars

\* connect() has returned false from a handshake the peer rejected, after an
\* earlier session had been closed with disconnect()
C37_Witness ==
    /\ pc = "idle"
    /\ last = [op |-> "connect", ret |-> FALSE]
    /\ call.op = "connect" /\ call.was = "Disconnected"
    /\ state_ = "Error"
    /\ last_error_ = "Handshake rejected by server"
    /\ server_info_ # ZeroServerInfo

(* ------------------------------------------------------------------ *)
(* The cached session information                                      *)
(* ------------------------------------------------------------------ *)
\* connect() returns true from a handshake in this step
HandshakeSucceeds ==
    /\ pc = "handshake"
    /\ pc' = "idle"
    /\ last' = [op |-> "connect", ret |-> TRUE]

\* the ServerInfo that the handshake response at the head of the channel describes
PendingServerInfo ==
    [protocol_version |-> inbox[2], accepted |-> inbox[3], model |-> inbox[4]]

\* C38: a handshake that succeeds stores the version, the acceptance and the
\* model information of its response in every field of the session information,
\* no step of sendHeartbeat, sendFrame, receiveDetections or of a connect() that
\* does not succeed modifies it, and it says accepted whenever the state is Connected
C38_SessionInfoOfCurrentSession ==
    /\ [](state_ = "Connected" => server_info_.accepted = 1)
    /\ [][/\ HandshakeSucceeds =>
                /\ server_info_' = PendingServerInfo
                /\ state_' = "Connected"
          /\ (/\ ClientStep
              /\ call'.op \in {"connect", "sendHeartbeat", "sendFrame", "receiveDetections"}
              /\ ~HandshakeSucceeds) => server_info_' = server_info_]_vars

\* the session information describes a detector of a newer version with the
\* second model, and a heartbeat has been exchanged in that session
C38_Witness ==
    /\ state_ = "Connected"
    /\ pc = "idle"
    /\ server_info_ = [protocol_version |-> PROTOCOL_VERSION + 1, accepted |-> 1, model |-> 8]
    /\ last = [op |-> "sendHeartbeat", ret |-> TRUE]
    /\ call.was = "Connected"

(* ------------------------------------------------------------------ *)
(* Descriptors and mappings over a whole run                           *)
(* ------------------------------------------------------------------ *)
\* C33: at any time the descriptors the process has open are the control socket
\* and the region descriptor the client currently holds, so at most one socket is
\* open and none is left over from an earlier attempt, and at most one region
\* is mapped
C33_OneSocketOneRegion ==
    /\ fds \subseteq {socket_fd_, shm_fd_}
    /\ Cardinality(fds \ {shm_fd_}) <= 1
    /\ maps <= 1
    /\ maps = 1 <=> shm_ptr_ # "null"

\* connect() has succeeded after the peer had closed the previous session, which
\* receiveDetections had noticed
C33_Witness ==
    /\ pc = "idle"
    /\ state_ = "Connected"
    /\ last = [op |-> "connect", ret |-> TRUE]
    /\ call = [op |-> "connect", was |-> "Disconnected"]
    /\ last_error_ = "Server disconnected"
    /\ fds = {socket_fd_, shm_fd_}
    /\ maps = 1

(* ------------------------------------------------------------------ *)
(* The bound of a result batch                                         *)
(* ------------------------------------------------------------------ *)
\* C34: receiveDetections never hands out more than MAX_DETECTIONS detections,
\* whatever num_detections the message carries: it reads no entry behind the
\* detection array of the message
C34_BatchBounded ==
    [][(pc = "idle" /\ ClientStep /\ call'.op = "receiveDetections") =>
            /\ Len(out'.detections) <= MAX_DETECTIONS
            /\ last'.ret => \A i \in 1..Len(out'.detections) :
                                out'.detections[i] = inbox[4 + i]]_vars

(* ------------------------------------------------------------------ *)
(* The region as a single-slot mailbox                                 *)
(* ------------------------------------------------------------------ *)
\* C32: the region always holds the most recent in-capacity frame submitted while
\* Connected: a sendFrame call that is refused (not Connected, or larger than the
\* capacity) changes nothing in the region, a call of an in-capacity frame made
\* while Connected returns with the region holding its header and payload, and
\* the outcome of the FrameReady send does not touch the region
C32_SingleSlotMailbox ==
    [][(ClientStep /\ call'.op = "sendFrame") =>
            /\ (Oversize(call') \/ call'.was # "Connected") => region' = region
            /\ pc = "sf_notify" => region' = region
            /\ (pc' = "idle" /\ ~Oversize(call') /\ call'.was = "Connected") =>
                    RegionHoldsFrame(call, region.stride)']_vars

(* ------------------------------------------------------------------ *)
(* What the detector reads from the region                             *)
(* ------------------------------------------------------------------ *)
\* the header and the payload read are those of one frame within capacity
ReadIsOneFrame(r) ==
    /\ r.header.width * r.header.height * BYTES_PER_PIXEL <= MAX_FRAME_SIZE
    /\ Len(r.data) = r.header.width * r.header.height * BYTES_PER_PIXEL
    /\ \A i \in 1..Len(r.data) :
           r.data[i] = Pixels(r.header.frame_id, r.header.width, r.header.height)[i]

\* C31: a read of the region that the detector started after a FrameReady
\* notification returns the header and the payload of one submitted frame, never
\* the header of one frame over the payload of another and never the header of a
\* rejected oversize submission
C31_ReadsOneFrame ==
    reader.pc = "done" => ReadIsOneFrame(reader)

(* ------------------------------------------------------------------ *)
(* Heartbeat replies and the requests they answer                      *)
(* ------------------------------------------------------------------ *)
\* C35: sendHeartbeat returns true only when the peer has answered the request
\* of this very call; a reply to an earlier request that was still on the channel
\* (or arrived late) is not taken for it
C35_ReplyAnswersThisRequest ==
    (pc = "idle" /\ last = [op |-> "sendHeartbeat", ret |-> TRUE]) => hb_burst >= 0

(* ------------------------------------------------------------------ *)
(* The order of result batches                                         *)
(* ------------------------------------------------------------------ *)
\* the batch that a DetectionResult message carries
BatchOf(bytes) ==
    [frame_id |-> bytes[2], inference_time_ms |-> bytes[3],
     detections |-> [i \in 1..bytes[4] |-> bytes[4 + i]]]

\* C36: results come out in channel order and at most once: a receiveDetections
\* call that returns true takes exactly one DetectionResult message that the peer
\* sent off the front of the channel and returns its batch, and a step of
\* sendHeartbeat that takes a message off the channel returns no batch
C36_ResultsInChannelOrder ==
    [][/\ (pc = "idle" /\ ClientStep /\ call'.op = "receiveDetections" /\ last'.ret) =>
                /\ Take(inbox, SIZE_DETECTION_RESULT) \in OrderedResults
                /\ out' = BatchOf(Take(inbox, SIZE_DETECTION_RESULT))
                /\ inbox' = Drop(inbox, SIZE_DETECTION_RESULT)
       /\ (ClientStep /\ call'.op = "sendHeartbeat") => out' = out]_vars

====
